---------------------------- MODULE Spec2Model ----------------------------
(***************************************************************************)
(* Model of scripts/check_readme_syntax.py: a linter that reads README.md, *)
(* counts fence-marker lines, escaped backticks and backticks outside      *)
(* fenced regions, and reports the issues it finds.                        *)
(*                                                                         *)
(* A text is a sequence of characters; a character is named by a string.   *)
(* The script is a straight-line program; pc records the statement it is   *)
(* at and i the index of the line a loop is about to visit.                *)
(***************************************************************************)
EXTENDS Integers, Sequences, FiniteSets, TLC

\* Bound on the length of the document text, in characters.
MaxLen == 7

\* The characters: a backtick, a backslash, a space and a line feed.
BT == "backtick"
BS == "backslash"
SP == "space"
NL == "linefeed"

\* The characters a document is drawn from.  BS doubles as the generic
\* non-whitespace character other than a backtick.
Alphabet == {BT, BS, SP, NL}

Texts == UNION {[1..n -> Alphabet] : n \in 0..MaxLen}

\* Bound on the length of the body of a fenced block.
MaxBody == 2

\* Fenced blocks: an opening fence marker, bare or with a one-character
\* tag, the body lines (each ended by a line feed), and a bare closing
\* fence marker.
FencedBlocks ==
    {open \o <<NL>> \o (IF body = <<>> THEN <<>> ELSE body \o <<NL>>) \o <<BT, BT, BT>> :
        open \in {<<BT, BT, BT>>, <<BT, BT, BT, BS>>},
        body \in UNION {[1..n -> Alphabet] : n \in 0..MaxBody}}

\* The contents README.md is drawn from.
Documents == Texts \cup FencedBlocks

\* str.isspace() on the characters of Alphabet.
IsSpace(c) == c \in {SP, NL}

\* text.splitlines(): break at every line boundary, the boundary is not part
\* of the line, and a trailing boundary does not open a last empty line.
RECURSIVE SplitFrom(_, _, _)
SplitFrom(t, k, cur) ==
    IF k > Len(t) THEN (IF cur = <<>> THEN <<>> ELSE <<cur>>)
    ELSE IF t[k] = NL THEN <<cur>> \o SplitFrom(t, k + 1, <<>>)
    ELSE SplitFrom(t, k + 1, Append(cur, t[k]))

splitlines(t) == SplitFrom(t, 1, <<>>)

\* line.lstrip(): drop the leading whitespace.
RECURSIVE lstrip(_)
lstrip(s) ==
    IF s # <<>> /\ IsSpace(Head(s)) THEN lstrip(Tail(s)) ELSE s

\* s.startswith(three backticks)
startswith_fence(s) ==
    Len(s) >= 3 /\ s[1] = BT /\ s[2] = BT /\ s[3] = BT

\* s.split(): the maximal runs of non-whitespace characters, in order.
RECURSIVE SplitWords(_, _, _)
SplitWords(s, k, cur) ==
    IF k > Len(s) THEN (IF cur = <<>> THEN <<>> ELSE <<cur>>)
    ELSE IF IsSpace(s[k])
         THEN (IF cur = <<>> THEN <<>> ELSE <<cur>>) \o SplitWords(s, k + 1, <<>>)
         ELSE SplitWords(s, k + 1, Append(cur, s[k]))

split(s) == SplitWords(s, 1, <<>>)

\* line.count(backtick)
RECURSIVE count_backticks(_)
count_backticks(s) ==
    IF s = <<>> THEN 0
    ELSE (IF Head(s) = BT THEN 1 ELSE 0) + count_backticks(Tail(s))

\* text.count(backslash backtick): non-overlapping occurrences, scanning left to right;
\* after a match the scan resumes behind the matched pair.
RECURSIVE CountFrom(_, _)
CountFrom(t, k) ==
    IF k + 1 > Len(t) THEN 0
    ELSE IF t[k] = BS /\ t[k + 1] = BT THEN 1 + CountFrom(t, k + 2)
    ELSE CountFrom(t, k + 1)

count_escaped_Backslashes(t) ==
    Cardinality({k \in 1..Len(t) : t[k] = BS})

count_escaped(t) == CountFrom(t, 1)

\* The test of line 12: open a new fence context or close the top one.
ShouldPush_NoEmptyTest(stack, fence) ==
    stack # <<>> /\ stack[Len(stack)] # fence

ShouldPush(stack, fence) ==
    stack = <<>> \/ stack[Len(stack)] # fence

\* Lines 12-15: the stack after a fence-marker line whose token is fence.
PushOrPop(stack, fence) ==
    IF ShouldPush(stack, fence) THEN Append(stack, fence)
    ELSE SubSeq(stack, 1, Len(stack) - 1)

\* Line 16: the counter after a fence-marker line; pushed tells whether the
\* line was pushed onto the stack.
FenceCountAfter_PushOnly(fc, pushed) == IF pushed THEN fc + 1 ELSE fc

FenceCountAfter(fc, pushed) == fc + 1

\* fence_curr is None or a token.
None == <<>>
Some(tok) == <<tok>>

\* Lines 26-31: the flag and the recorded token after a fence-marker line.
ToggleFence_MatchToken(flag, curr, tok) ==
    IF ~flag THEN [in_fence |-> TRUE, fence_curr |-> Some(tok)]
    ELSE IF curr = Some(tok) THEN [in_fence |-> FALSE, fence_curr |-> None]
    ELSE [in_fence |-> TRUE, fence_curr |-> curr]

ToggleFence(flag, curr, tok) ==
    IF ~flag THEN [in_fence |-> TRUE, fence_curr |-> Some(tok)]
    ELSE [in_fence |-> FALSE, fence_curr |-> None]

\* Lines 33-34: what a line that is not a fence marker adds to the count.
InlineAdd_IgnoreFlag(flag, line) == count_backticks(line)

InlineAdd(flag, line) == IF ~flag THEN count_backticks(line) ELSE 0

\* The three issue messages; found is the number the message names.
FenceIssue(n) == [kind |-> "fence", found |-> n]
EscapeIssue(n) == [kind |-> "escape", found |-> n]
InlineIssue(n) == [kind |-> "inline", found |-> n]

\* Lines 36-42: the issue list.
BuildErrs_FirstOnly(fc, esc, ob) ==
    IF fc % 2 # 0 THEN <<FenceIssue(fc)>>
    ELSE IF esc > 0 THEN <<EscapeIssue(esc)>>
    ELSE IF ob % 2 # 0 THEN <<InlineIssue(ob)>>
    ELSE <<>>

BuildErrs_EscapeAboveOne(fc, esc, ob) ==
    (IF fc % 2 # 0 THEN <<FenceIssue(fc)>> ELSE <<>>)
    \o (IF esc > 1 THEN <<EscapeIssue(esc)>> ELSE <<>>)
    \o (IF ob % 2 # 0 THEN <<InlineIssue(ob)>> ELSE <<>>)

BuildErrs(fc, esc, ob) ==
    (IF fc % 2 # 0 THEN <<FenceIssue(fc)>> ELSE <<>>)
    \o (IF esc > 0 THEN <<EscapeIssue(esc)>> ELSE <<>>)
    \o (IF ob % 2 # 0 THEN <<InlineIssue(ob)>> ELSE <<>>)

\* Line 44: the truth value of the issue list.
HasIssues_MoreThanOne(e) == Len(e) > 1

HasIssues(e) == e # <<>>

\* The lines print() writes: its first argument and the issue it is given.
HeaderLine == [head |-> "SYNTAX-ISSUES", issue |-> <<>>]
IssueLine(e) == [head |-> "-", issue |-> <<e>>]
OkLine == [head |-> "OK", issue |-> <<>>]

VARIABLES
    text,               \* line 3: the contents of README.md
    lines,              \* line 4: text.splitlines()
    pc,                 \* the statement the script is at
    i,                  \* lines 8, 23, 46: the index the running loop visits next
    fence_count,        \* line 6
    fence_stack,        \* line 7
    escaped,            \* line 18
    outside_backticks,  \* line 20
    in_fence,           \* line 21
    fence_curr,         \* line 22
    errs,               \* line 36
    out,                \* the lines written by print()
    exit_status         \* the status the process ends with

vars == <<text, lines, pc, i, fence_count, fence_stack, escaped,
          outside_backticks, in_fence, fence_curr, errs, out, exit_status>>

\* Lines 2-7: the text is read and split, the first loop is about to start.
Init ==
    /\ text \in Documents
    /\ lines = splitlines(text)
    /\ pc = "fence_loop"
    /\ i = 1
    /\ fence_count = 0
    /\ fence_stack = <<>>
    /\ escaped = 0
    /\ outside_backticks = 0
    /\ in_fence = FALSE
    /\ fence_curr = None
    /\ errs = <<>>
    /\ out = <<>>
    /\ exit_status = -1   \* the run has not ended

\* An uncaught IndexError ends the run with a traceback and status 1.
Raise ==
    /\ pc' = "raised"
    /\ exit_status' = 1
    /\ UNCHANGED <<text, lines, i, fence_count, fence_stack, escaped,
                   outside_backticks, in_fence, fence_curr, errs, out>>

\* Lines 8-16: one iteration of the fence balance loop.  Indexing an empty
\* word list or popping an empty stack raises IndexError.
FenceLoopStep ==
    /\ pc = "fence_loop"
    /\ i <= Len(lines)
    /\ LET s == lstrip(lines[i]) IN
       IF startswith_fence(s)
       THEN LET words == split(s) IN
            IF words = <<>> THEN Raise
            ELSE LET fence == words[1]
                     pushed == ShouldPush(fence_stack, fence) IN
                 IF ~pushed /\ fence_stack = <<>> THEN Raise
                 ELSE /\ fence_stack' = PushOrPop(fence_stack, fence)
                      /\ fence_count' = FenceCountAfter(fence_count, pushed)
                      /\ i' = i + 1
                      /\ UNCHANGED <<text, lines, pc, escaped, outside_backticks,
                                     in_fence, fence_curr, errs, out, exit_status>>
       ELSE /\ i' = i + 1
            /\ UNCHANGED <<text, lines, pc, fence_count, fence_stack, escaped,
                           outside_backticks, in_fence, fence_curr, errs, out,
                           exit_status>>

\* Lines 18-22: the first loop is over; count the escapes and reset the
\* accumulators of the second loop.
CountEscaped ==
    /\ pc = "fence_loop"
    /\ i > Len(lines)
    /\ escaped' = count_escaped(text)
    /\ outside_backticks' = 0
    /\ in_fence' = FALSE
    /\ fence_curr' = None
    /\ pc' = "inline_loop"
    /\ i' = 1
    /\ UNCHANGED <<text, lines, fence_count, fence_stack, errs, out, exit_status>>

\* Lines 23-34: one iteration of the inline balance loop.
InlineLoopStep ==
    /\ pc = "inline_loop"
    /\ i <= Len(lines)
    /\ LET s == lstrip(lines[i]) IN
       IF startswith_fence(s)
       THEN LET words == split(s) IN
            IF ~in_fence /\ words = <<>> THEN Raise
            ELSE LET t == ToggleFence(in_fence, fence_curr,
                                      IF words = <<>> THEN <<>> ELSE words[1]) IN
                 /\ in_fence' = t.in_fence
                 /\ fence_curr' = t.fence_curr
                 /\ i' = i + 1
                 /\ UNCHANGED <<text, lines, pc, fence_count, fence_stack, escaped,
                                outside_backticks, errs, out, exit_status>>
       ELSE /\ outside_backticks' = outside_backticks + InlineAdd(in_fence, lines[i])
            /\ i' = i + 1
            /\ UNCHANGED <<text, lines, pc, fence_count, fence_stack, escaped,
                           in_fence, fence_curr, errs, out, exit_status>>

\* Lines 36-42: the second loop is over; build the issue list.
CollectErrs ==
    /\ pc = "inline_loop"
    /\ i > Len(lines)
    /\ errs' = BuildErrs(fence_count, escaped, outside_backticks)
    /\ pc' = "report"
    /\ UNCHANGED <<text, lines, i, fence_count, fence_stack, escaped,
                   outside_backticks, in_fence, fence_curr, out, exit_status>>

\* Lines 44-45: issues were found; print the header.
PrintHeader ==
    /\ pc = "report"
    /\ HasIssues(errs)
    /\ out' = Append(out, HeaderLine)
    /\ pc' = "print_errs"
    /\ i' = 1
    /\ UNCHANGED <<text, lines, fence_count, fence_stack, escaped,
                   outside_backticks, in_fence, fence_curr, errs, exit_status>>

\* Lines 46-47: print one issue.
PrintErr ==
    /\ pc = "print_errs"
    /\ i <= Len(errs)
    /\ out' = Append(out, IssueLine(errs[i]))
    /\ i' = i + 1
    /\ UNCHANGED <<text, lines, pc, fence_count, fence_stack, escaped,
                   outside_backticks, in_fence, fence_curr, errs, exit_status>>

\* Line 48: raise SystemExit(2).
ExitWithIssues ==
    /\ pc = "print_errs"
    /\ i > Len(errs)
    /\ exit_status' = 2
    /\ pc' = "exited"
    /\ UNCHANGED <<text, lines, i, fence_count, fence_stack, escaped,
                   outside_backticks, in_fence, fence_curr, errs, out>>

\* Line 49: no issue; print the confirmation and fall off the end.
PrintOk ==
    /\ pc = "report"
    /\ ~HasIssues(errs)
    /\ out' = Append(out, OkLine)
    /\ exit_status' = 0
    /\ pc' = "done"
    /\ UNCHANGED <<text, lines, i, fence_count, fence_stack, escaped,
                   outside_backticks, in_fence, fence_curr, errs>>

Next ==
    \/ FenceLoopStep
    \/ CountEscaped
    \/ InlineLoopStep
    \/ CollectErrs
    \/ PrintHeader
    \/ PrintErr
    \/ ExitWithIssues
    \/ PrintOk

Spec == Init /\ [][Next]_vars


(***************************************************************************)
(* What the properties speak of, stated on the document itself and not by  *)
(* way of the operators the script is modelled with.                       *)
(***************************************************************************)

\* A fence-marker line: after its leading whitespace come three backticks.
IsFenceMarker(line) ==
    \E k \in 0..Len(line) :
        /\ k + 3 <= Len(line)
        /\ \A j \in 1..k : IsSpace(line[j])
        /\ \A j \in (k + 1)..(k + 3) : line[j] = BT

\* The fence-marker lines among the first n lines.
FenceMarkersUpTo(n) == {j \in 1..n : IsFenceMarker(lines[j])}

NumFenceMarkers(n) == Cardinality(FenceMarkersUpTo(n))

NumLines == Len(lines)

\* The places of the raw text where a backslash is followed by a backtick.
EscapePlaces ==
    {k \in 1..(Len(text) - 1) : text[k] = BS /\ text[k + 1] = BT}

EscapeCount == Cardinality(EscapePlaces)

\* The backticks, as <<line, column>>, of the lines among the first n that
\* are no fence marker and have an even number of fence markers before them.
OutsideBackticksUpTo(n) ==
    {p \in (1..n) \X (1..Len(text)) :
        /\ p[2] <= Len(lines[p[1]])
        /\ lines[p[1]][p[2]] = BT
        /\ ~IsFenceMarker(lines[p[1]])
        /\ NumFenceMarkers(p[1] - 1) % 2 = 0}

OutsideCount(n) == Cardinality(OutsideBackticksUpTo(n))

Odd(n) == n % 2 = 1

\* The issue list has been built.
Built == pc \in {"report", "print_errs", "done", "exited"}

\* The run has ended.
Finished == pc \in {"done", "exited", "raised"}

HasIssue(kind) == \E j \in 1..Len(errs) : errs[j].kind = kind

\* The conditions the document violates.
ViolatedKinds ==
    (IF Odd(NumFenceMarkers(NumLines)) THEN {"fence"} ELSE {})
    \cup (IF EscapeCount > 0 THEN {"escape"} ELSE {})
    \cup (IF Odd(OutsideCount(NumLines)) THEN {"inline"} ELSE {})

Rank(kind) == CASE kind = "fence" -> 1 [] kind = "escape" -> 2 [] kind = "inline" -> 3

Passed == errs = <<>> /\ out = <<OkLine>> /\ exit_status # 2

\* C1: a finished scan has passed (no issue, the OK message, no exit status
\* 2) if and only if the number of fence-marker lines is even, no backslash
\* is followed by a backtick, and the outside-fence backtick count is even.
C1_PassIffAllThreeHold ==
    Finished =>
        (Passed <=> /\ ~Odd(NumFenceMarkers(NumLines))
                    /\ EscapeCount = 0
                    /\ ~Odd(OutsideCount(NumLines)))

\* A document with a fenced block has passed.
C1_Witness ==
    pc = "done" /\ Passed /\ NumFenceMarkers(NumLines) = 2

\* C2: the issue list holds exactly one entry per violated condition, the
\* fence issue before the escape issue before the inline-balance issue.
C2_OneIssuePerViolationInOrder ==
    Built =>
        /\ Len(errs) = Cardinality(ViolatedKinds)
        /\ \A k \in ViolatedKinds : HasIssue(k)
        /\ \A j \in 1..Len(errs) : errs[j].kind \in ViolatedKinds
        /\ \A a, b \in 1..Len(errs) :
               a < b => Rank(errs[a].kind) < Rank(errs[b].kind)

\* A document violating all three conditions yields three issues.
C2_Witness ==
    /\ Built
    /\ ViolatedKinds = {"fence", "escape", "inline"}
    /\ Len(errs) = 3
    /\ errs[1].kind = "fence" /\ errs[2].kind = "escape" /\ errs[3].kind = "inline"

\* C3: in the fence balance pass the counter equals the number of
\* fence-marker lines among the lines visited so far, whatever happened to
\* the stack; after the pass it is the number of fence-marker lines of the
\* document, and the fence issue is emitted, naming it, iff it is odd.
C3_CounterCountsEveryFenceMarker ==
    /\ pc = "fence_loop" => fence_count = NumFenceMarkers(i - 1)
    /\ pc \notin {"fence_loop", "raised"} => fence_count = NumFenceMarkers(NumLines)
    /\ Built => /\ HasIssue("fence") <=> Odd(fence_count)
                /\ \A j \in 1..Len(errs) :
                       errs[j].kind = "fence" => errs[j].found = NumFenceMarkers(NumLines)

\* Two fence-marker lines, the first pushed and the second popped, were
\* both counted.
C3_Witness ==
    /\ pc = "fence_loop"
    /\ i = 3
    /\ FenceMarkersUpTo(2) = {1, 2}
    /\ fence_stack = <<>>
    /\ fence_count = 2

\* A document whose only line is a fence marker fails, the issue naming 1.
C3_WitnessSingle ==
    /\ Built
    /\ NumLines = 1
    /\ errs = <<FenceIssue(1)>>

\* C4: the outside-fence count is the number of backticks on the visited
\* lines that are no fence marker and follow an even number of fence-marker
\* lines; backticks on fence-marker lines and inside an open fenced region
\* never change it.
C4_InlineCountSkipsFencedRegions ==
    /\ pc = "inline_loop" => outside_backticks = OutsideCount(i - 1)
    /\ Built => outside_backticks = OutsideCount(NumLines)

\* The backticks of lines 2..n-1 of the document.
InnerBackticks ==
    {p \in (2..(NumLines - 1)) \X (1..Len(text)) :
        p[2] <= Len(lines[p[1]]) /\ lines[p[1]][p[2]] = BT}

\* A fenced block holding an odd number of backticks, and nothing else,
\* has passed.
C4_Witness ==
    /\ pc = "done"
    /\ Passed
    /\ NumLines >= 3
    /\ FenceMarkersUpTo(NumLines) = {1, NumLines}
    /\ Odd(Cardinality(InnerBackticks))
    /\ outside_backticks = 0

\* C5: the escape count is the number of places of the raw text where a
\* backslash is followed by a backtick, wherever they lie, and the escape
\* issue is emitted, naming that count, iff the count is above zero.
C5_EscapesCountedEverywhere ==
    /\ pc \notin {"fence_loop", "raised"} => escaped = EscapeCount
    /\ Built => /\ HasIssue("escape") <=> EscapeCount > 0
                /\ \A j \in 1..Len(errs) :
                       errs[j].kind = "escape" => errs[j].found = EscapeCount

\* Two escapes, one of them on a fence-marker line, are reported as 2.
C5_Witness ==
    /\ Built
    /\ EscapeCount = 2
    /\ \E k \in EscapePlaces : k <= Len(lines[1]) /\ IsFenceMarker(lines[1])
    /\ \E j \in 1..Len(errs) : errs[j] = EscapeIssue(2)


\* The number of leading whitespace characters of a line.
Indent(line) ==
    Cardinality({k \in 1..Len(line) : \A j \in 1..k : IsSpace(line[j])})

\* A fence-marker line on which nothing but whitespace follows the three
\* backticks.
IsBareMarker(line) ==
    /\ IsFenceMarker(line)
    /\ \A j \in (Indent(line) + 4)..Len(line) : IsSpace(line[j])

\* A fence-marker line on which a tag follows the three backticks at once.
IsTaggedMarker(line) ==
    /\ IsFenceMarker(line)
    /\ Indent(line) + 4 <= Len(line)
    /\ line[Indent(line) + 4] = BS

\* The fence stack after the first n lines, as the loop of lines 8-16
\* computes it.
RECURSIVE FenceStackAfter(_)
FenceStackAfter(n) ==
    IF n <= 0 THEN <<>>
    ELSE LET s == lstrip(lines[n]) IN
         IF startswith_fence(s)
         THEN PushOrPop(FenceStackAfter(n - 1), split(s)[1])
         ELSE FenceStackAfter(n - 1)

\* C6: a tagged fence-marker line followed by a bare one leaves the stack as
\* it was before the pair, and the tokens the fence-marker lines have put on
\* the stack are the run of three backticks alone.
C6_TokenIsTheTripleRunAlone ==
    /\ Built => \A k \in 1..Len(fence_stack) : fence_stack[k] = <<BT, BT, BT>>
    /\ (/\ pc = "fence_loop"
        /\ i >= 3
        /\ IsTaggedMarker(lines[i - 2])
        /\ IsBareMarker(lines[i - 1]))
       => fence_stack = FenceStackAfter(i - 3)

\* C7: once the fence balance pass is over, an even fence-marker-line count
\* (no fence issue) comes with an empty fence stack.
C7_BalancedMeansEmptyStack ==
    /\ (pc \notin {"fence_loop", "raised"} /\ ~Odd(fence_count)) => fence_stack = <<>>
    /\ (Built /\ ~HasIssue("fence")) => fence_stack = <<>>

\* The issue lines print() writes for the first n issues.
IssueLines(n) == [j \in 1..n |-> IssueLine(errs[j])]

Printed(line) == \E j \in 1..Len(out) : out[j] = line

\* C8: with an issue the output is the header, then the issues in list
\* order, the exit status is 2 and the OK line is never written; without an
\* issue the output is the OK line alone and the status is 0; the status is
\* 2 iff the issue list is not empty.
C8_OutputProtocol ==
    /\ pc = "report" => out = <<>>
    /\ pc = "print_errs" => out = <<HeaderLine>> \o IssueLines(i - 1)
    /\ pc = "exited" => /\ out = <<HeaderLine>> \o IssueLines(Len(errs))
                        /\ exit_status = 2
    /\ pc = "done" => out = <<OkLine>> /\ exit_status = 0
    /\ errs # <<>> => ~Printed(OkLine)
    /\ Finished => (exit_status = 2 <=> errs # <<>>)
    /\ ~Finished => exit_status \notin {0, 2}

\* A run with two issues has printed the header and both and exited with 2.
C8_Witness ==
    /\ pc = "exited"
    /\ Len(errs) = 2
    /\ Len(out) = 3
    /\ exit_status = 2

\* C9: no document makes the scan raise; a run that has not ended can take
\* its next step, the loops never index past the last line, the word list
\* of a fence-marker line is never empty, and a finished run has a verdict.
C9_ScanNeverFailsOnContent ==
    /\ pc # "raised"
    /\ pc \notin {"done", "exited"} => ENABLED Next
    /\ pc \in {"fence_loop", "inline_loop"} => i \in 1..(NumLines + 1)
    /\ \A j \in 1..NumLines :
           IsFenceMarker(lines[j]) => split(lstrip(lines[j])) # <<>>
    /\ Finished => exit_status \in {0, 2}

\* A document with a blank line, a whitespace-only line and a line holding
\* the three backticks alone has a verdict.
C9_Witness ==
    /\ pc = "exited"
    /\ \E a, b, c \in 1..NumLines :
           /\ lines[a] = <<>>
           /\ lines[b] = <<SP>>
           /\ lines[c] = <<BT, BT, BT>>

\* The empty document has a verdict.
C9_WitnessEmpty == pc = "done" /\ text = <<>>

\* C10: in the inline-balance pass the flag is true iff the number of
\* fence-marker lines visited so far is odd; at the end it is true iff the
\* counter of the fence balance pass is odd, iff the fence issue is
\* emitted; and the recorded token is set iff the flag is true.
C10_FlagIsCounterParity ==
    /\ pc = "inline_loop" => (in_fence <=> Odd(NumFenceMarkers(i - 1)))
    /\ (pc = "inline_loop" /\ i = NumLines + 1) => (in_fence <=> Odd(fence_count))
    /\ Built => /\ in_fence <=> Odd(fence_count)
                /\ in_fence <=> HasIssue("fence")
    /\ (fence_curr # None) <=> in_fence

\* The flag is false after two fence-marker lines with different tokens,
\* both of which are still on the stack.
C10_Witness ==
    /\ pc = "inline_loop"
    /\ i = NumLines + 1
    /\ fence_count = 2
    /\ Len(fence_stack) = 2
    /\ ~in_fence
    /\ fence_curr = None

=============================================================================
